---- MODULE Spec2Model ----
(***************************************************************************)
(* Bled112Client (src/src/bled112client.h): framing and type-directed      *)
(* dispatch of BGAPI messages over a serial byte stream.                   *)
(*                                                                         *)
(* A client call is a sequence of transport operations; each transport     *)
(* operation is one step, so that a call can be seen blocked in a read or  *)
(* ended by a transport error between two operations.                      *)
(***************************************************************************)
EXTENDS Integers, Sequences, FiniteSets, TLC

\* ---------------------------------------------------------------- bounds
MaxLen == 2         \* largest payload length carried by a delivered header
MaxMsgs == 2        \* messages queued on the transport
MaxCalls == 2       \* read calls in one behaviour
MaxFunctions == 2   \* handlers passed to read(functions...)
MaxLeftover == 1    \* bytes of the Buffer passed to write(payload, leftover)

\* ------------------------------------------------------------ constants
HeaderSize == 4     \* sizeof(Header)

\* std::size_t is 64 bits wide.  A size_t is held as its SizeWords 16-bit
\* words, least significant first: <<w1, w2, w3, w4>> is the number
\* w1 + 2^16 * w2 + 2^32 * w3 + 2^48 * w4.
WordBase == 65536   \* 2^16
SizeWords == 4      \* 64 / 16

\* ------------------------------------------------------- message types
\* T::cls, T::cmd, sizeof(T), Partial<T>::value of the message structs.
Type(c, m, s, p) == [cls |-> c, cmd |-> m, size |-> s, partial |-> p]

Types ==
    { Type(2, 3, 2, FALSE),     \* fixed, same class and command as the next
      Type(2, 3, 1, TRUE),      \* partial
      Type(1, 3, 1, FALSE) }    \* fixed

NoType == Type(0, 0, 0, FALSE)

\* class and command of the messages delivered: those of the types, and
\* one that no type has
Identities == {<<2, 3>>, <<1, 3>>, <<2, 1>>}

\* ---------------------------------------------------------------- Header
\* Header: four bytes, the low three bits of the first and the second byte
\* carry the payload length, then the class and the command index.
length(h) == (h.hilen % 8) * 256 + h.lolen

packHeader(h) == <<h.hilen, h.lolen, h.cls, h.cmd>>

unpackHeader(bytes) ==
    [hilen |-> bytes[1], lolen |-> bytes[2], cls |-> bytes[3], cmd |-> bytes[4]]

getHeader(T, data_length) ==
    [hilen |-> ((T.size + data_length) \div 256) % 8,
     lolen |-> (T.size + data_length) % 256,
     cls |-> T.cls, cmd |-> T.cmd]

NoHeader == [hilen |-> 0, lolen |-> 0, cls |-> 0, cmd |-> 0]

\* -------------------------------------------------------------- payloads
\* A payload value is the little-endian integer held by its sizeof(T) bytes.
RECURSIVE Pow256(_)
Pow256(n) == IF n = 0 THEN 1 ELSE 256 * Pow256(n - 1)

pack(v, size) == [j \in 1..size |-> (v \div Pow256(j - 1)) % 256]

RECURSIVE unpack(_)
unpack(bytes) ==
    IF bytes = <<>> THEN 0 ELSE bytes[1] + 256 * unpack(Tail(bytes))

\* ------------------------------------------------------------- size_t
\* the conversion of a number below 2^31 to size_t
ToSize(n) ==
    [i \in 1..SizeWords |->
        IF i = 1 THEN n % WordBase
        ELSE IF i = 2 THEN n \div WordBase
        ELSE 0]

\* x - y in size_t, from word i on, with the borrow of the words below
RECURSIVE SubWords(_, _, _, _)
SubWords(x, y, i, borrow) ==
    IF i > SizeWords THEN <<>>
    ELSE LET d == x[i] - y[i] - borrow
         IN IF d < 0
            THEN <<d + WordBase>> \o SubWords(x, y, i + 1, 1)
            ELSE <<d>> \o SubWords(x, y, i + 1, 0)

\* header.length() - sizeof(T): both operands are converted to size_t and
\* the difference wraps modulo 2^64
SizeSub(a, b) == SubWords(ToSize(a), ToSize(b), 1, 0)

\* a size_t that is below 2^31, and its number
SizeFits(s) ==
    /\ s[2] < WordBase \div 2
    /\ \A i \in 1..SizeWords : i > 2 => s[i] = 0
SizeNat(s) == s[1] + WordBase * s[2]

\* ------------------------------------------------------------ sequences
Take(s, n) == SubSeq(s, 1, n)
Drop(s, n) == SubSeq(s, n + 1, Len(s))

SeqsUpTo(S, n) == UNION { [1..k -> S] : k \in 0..n }

\* ------------------------------------------------- delivered messages
PayloadByte(k, j) == 16 * k + j

Message(k, h) ==
    packHeader(h) \o [j \in 1..length(h) |-> PayloadByte(k, j)]

DeliveredHeaders ==
    { [hilen |-> 0, lolen |-> n, cls |-> id[1], cmd |-> id[2]] :
        n \in 0..MaxLen, id \in Identities }

\* the messages behind the first one are of one class and command
LaterHeaders == { h \in DeliveredHeaders : h.cls = 2 /\ h.cmd = 3 }

Deliveries ==
    { ms \in SeqsUpTo(DeliveredHeaders, MaxMsgs) :
        \A k \in 2..Len(ms) : ms[k] \in LaterHeaders }

RECURSIVE WireFrom(_, _)
WireFrom(ms, k) ==
    IF k > Len(ms) THEN <<>> ELSE Message(k, ms[k]) \o WireFrom(ms, k + 1)

Wire(ms) == WireFrom(ms, 1)

\* ------------------------------------------------------------ variables
VARIABLES
    msgs,       \* headers of the messages the transport delivers, in order
    rx,         \* bytes the transport has still to deliver
    tx,         \* bytes written to the transport by the current call
    pc,         \* position of the client inside the current call
    call,       \* the current call and its arguments
    header,     \* the local `header` of the current read call
    want,       \* size_t argument of the pending socket.read
    idx,        \* position of dispatch in the function list
    tested,     \* positions whose test has been evaluated
    invoked,    \* functions invoked by the current call, with arguments
    payload,    \* value decoded by readPayload
    leftover,   \* Buffer filled by readPayload(header, leftover)
    ops,        \* transport operations of the current call
    result,     \* outcome of the current call
    got,        \* bytes the current call has taken from the transport
    failed,     \* a socket.read has failed in this behaviour
    sent,       \* loopback: the last write call and the bytes it wrote
    nrecv       \* read calls begun

vars == <<msgs, rx, tx, pc, call, header, want, idx, tested, invoked,
          payload, leftover, ops, result, got, failed, sent, nrecv>>

NoCall == [kind |-> "none", T |-> NoType, payload |-> 0,
           leftover |-> <<>>, functions |-> <<>>]

NoSent == [call |-> NoCall, bytes |-> <<>>]

Init ==
    /\ msgs \in Deliveries
    /\ sent = NoSent
    /\ rx = Wire(msgs)
    /\ tx = <<>>
    /\ pc = "idle"
    /\ call = NoCall
    /\ header = NoHeader
    /\ want = ToSize(0)
    /\ idx = 0
    /\ tested = <<>>
    /\ invoked = <<>>
    /\ payload = 0
    /\ leftover = <<>>
    /\ ops = <<>>
    /\ result = "none"
    /\ got = <<>>
    /\ failed = FALSE
    /\ nrecv = 0

\* a transport operation and the number of bytes it has transferred
Op(o, w, n, ok) == [op |-> o, what |-> w, n |-> n, ok |-> ok]

\* ------------------------------------------------------------ the calls
Begin(c, p) ==
    /\ pc = "idle"
    /\ call' = c
    /\ pc' = p
    /\ UNCHANGED <<sent, msgs, rx, tx, header, idx, tested, invoked, payload,
                   leftover, ops, result, got, failed>>

Values(T) == { v \in {1, 258} : v < Pow256(T.size) }

\* write(const T &)
CallWrite(T, v) ==
    /\ Begin([NoCall EXCEPT !.kind = "write", !.T = T, !.payload = v],
             "writeHeader")
    /\ UNCHANGED <<want, nrecv>>

\* write(const T &, const Buffer &)
CallWriteBuffer(T, v, b) ==
    /\ Begin([NoCall EXCEPT !.kind = "writeBuffer", !.T = T, !.payload = v,
                            !.leftover = b],
             "writeHeader")
    /\ UNCHANGED <<want, nrecv>>

\* T read()
CallRead(T) ==
    /\ nrecv < MaxCalls
    /\ Begin([NoCall EXCEPT !.kind = "read", !.T = T], "readHeader")
    /\ want' = ToSize(HeaderSize)
    /\ nrecv' = nrecv + 1

\* T read(Buffer &)
CallReadBuffer(T) ==
    /\ nrecv < MaxCalls
    /\ Begin([NoCall EXCEPT !.kind = "readBuffer", !.T = T], "readHeader")
    /\ want' = ToSize(HeaderSize)
    /\ nrecv' = nrecv + 1

\* void read(const Functions&...)
CallReadFunctions(fs) ==
    /\ nrecv < MaxCalls
    /\ Begin([NoCall EXCEPT !.kind = "readFunctions", !.functions = fs],
             "readHeader")
    /\ want' = ToSize(HeaderSize)
    /\ nrecv' = nrecv + 1

\* ------------------------------------------------------------ the steps
Done(r) ==
    /\ pc' = "done"
    /\ result' = r

\* the type the current decode is instantiated with
CurT ==
    IF call.kind = "readFunctions" THEN call.functions[idx] ELSE call.T

\* writeHeader whose header leaves out leftover.size()
writeHeader_noLeftoverSize ==
    /\ pc = "writeHeader"
    /\ tx' = tx \o packHeader(getHeader(call.T, 0))
    /\ ops' = Append(ops, Op("write", "header", HeaderSize, TRUE))
    /\ pc' = "writePayload"
    /\ UNCHANGED <<sent, got, failed, msgs, rx, call, header, want, idx,
                   tested, invoked, payload, leftover, result, nrecv>>

\* socket.write(pack(getHeader<T>())) / socket.write(pack(getHeader<T>(leftover.size())))
writeHeader ==
    /\ pc = "writeHeader"
    /\ LET h == IF call.kind = "writeBuffer"
                THEN getHeader(call.T, Len(call.leftover))
                ELSE getHeader(call.T, 0)
       IN /\ tx' = tx \o packHeader(h)
          /\ ops' = Append(ops, Op("write", "header", HeaderSize, TRUE))
    /\ pc' = "writePayload"
    /\ UNCHANGED <<sent, got, failed, msgs, rx, call, header, want, idx, tested, invoked,
                   payload, leftover, result, nrecv>>

\* writePayload after which write(payload, leftover) forgets the leftover
writePayload_noLeftover ==
    /\ pc = "writePayload"
    /\ tx' = tx \o pack(call.payload, call.T.size)
    /\ ops' = Append(ops, Op("write", "payload", call.T.size, TRUE))
    /\ Done("ok")
    /\ UNCHANGED <<sent, got, failed, msgs, rx, call, header, want, idx, tested,
                   invoked, payload, leftover, nrecv>>

\* socket.write(pack(payload))
writePayload ==
    /\ pc = "writePayload"
    /\ tx' = tx \o pack(call.payload, call.T.size)
    /\ ops' = Append(ops, Op("write", "payload", call.T.size, TRUE))
    /\ IF call.kind = "writeBuffer"
       THEN pc' = "writeLeftover" /\ UNCHANGED result
       ELSE Done("ok")
    /\ UNCHANGED <<sent, got, failed, msgs, rx, call, header, want, idx, tested, invoked,
                   payload, leftover, nrecv>>

\* socket.write(leftover)
writeLeftover ==
    /\ pc = "writeLeftover"
    /\ tx' = tx \o call.leftover
    /\ ops' = Append(ops, Op("write", "leftover", Len(call.leftover), TRUE))
    /\ Done("ok")
    /\ UNCHANGED <<sent, got, failed, msgs, rx, call, header, want, idx, tested, invoked,
                   payload, leftover, nrecv>>

\* socket.read(n): blocks until n bytes are available
Available == SizeFits(want) /\ Len(rx) >= SizeNat(want)

\* the number of bytes a read that is not blocked returns
Asked == SizeNat(want)

\* Header readHeader()
readHeader ==
    /\ pc = "readHeader"
    /\ Available
    /\ header' = unpackHeader(Take(rx, Asked))
    /\ rx' = Drop(rx, Asked)
    /\ ops' = Append(ops, Op("read", "header", Asked, TRUE))
    /\ IF call.kind = "readFunctions"
       THEN pc' = "dispatch" /\ idx' = 1
       ELSE pc' = "checkHeader" /\ UNCHANGED idx
    /\ UNCHANGED <<sent, failed, msgs, tx, call, want, tested, invoked, payload,
                   leftover, result, nrecv>>
    /\ got' = got \o Take(rx, Asked)

\* checkHeader without the exemption of partial types from the length check
checkHeader_lengthAlways(T, h) ==
    IF h.cls # T.cls THEN "ClassMismatch"
    ELSE IF h.cmd # T.cmd THEN "CommandMismatch"
    ELSE IF length(h) # T.size THEN "LengthMismatch"
    ELSE "ok"

\* checkHeader that compares the command before the class
checkHeader_commandFirst(T, h) ==
    IF h.cmd # T.cmd THEN "CommandMismatch"
    ELSE IF h.cls # T.cls THEN "ClassMismatch"
    ELSE IF ~T.partial /\ length(h) # T.size THEN "LengthMismatch"
    ELSE "ok"

\* void checkHeader<T>(const Header &): the exception thrown, or "ok"
checkHeader(T, h) ==
    IF h.cls # T.cls THEN "ClassMismatch"
    ELSE IF h.cmd # T.cmd THEN "CommandMismatch"
    ELSE IF ~T.partial /\ length(h) # T.size THEN "LengthMismatch"
    ELSE "ok"

\* checkHeaderStep that waits for the next header after a mismatch
checkHeaderStep_retry ==
    /\ pc = "checkHeader"
    /\ LET r == checkHeader(call.T, header)
       IN IF r # "ok"
          THEN pc' = "readHeader" /\ want' = ToSize(HeaderSize)
          ELSE IF call.kind = "read"
               THEN pc' = "readPayload" /\ want' = ToSize(length(header))
               ELSE pc' = "readPrefix" /\ want' = ToSize(call.T.size)
    /\ Len(ops) < 2
    /\ UNCHANGED <<sent, got, failed, msgs, rx, tx, call, header, idx, tested,
                   invoked, payload, leftover, ops, result, nrecv>>

\* checkHeader<T>(header) inside read<T>() and read<T>(Buffer &)
checkHeaderStep ==
    /\ pc = "checkHeader"
    /\ LET r == checkHeader(call.T, header)
       IN IF r # "ok"
          THEN Done(r) /\ UNCHANGED want
          ELSE /\ UNCHANGED result
               /\ IF call.kind = "read"
                  THEN pc' = "readPayload" /\ want' = ToSize(length(header))
                  ELSE pc' = "readPrefix" /\ want' = ToSize(call.T.size)
    /\ UNCHANGED <<sent, got, failed, msgs, rx, tx, call, header, idx, tested, invoked,
                   payload, leftover, ops, nrecv>>

\* T readPayload<T>(const Header &)
readPayload ==
    /\ pc = "readPayload"
    /\ Available
    /\ payload' = unpack(Take(rx, Asked))
    /\ rx' = Drop(rx, Asked)
    /\ ops' = Append(ops, Op("read", "payload", Asked, TRUE))
    /\ IF call.kind = "read"
       THEN Done("ok")
       ELSE pc' = "invoke" /\ UNCHANGED result
    /\ UNCHANGED <<sent, failed, msgs, tx, call, header, want, idx, tested, invoked,
                   leftover, nrecv>>
    /\ got' = got \o Take(rx, Asked)

\* readPayloadPrefix that asks for header.length() leftover bytes, sizeof(T)
\* not subtracted
readPayloadPrefix_noSubtract ==
    /\ pc = "readPrefix"
    /\ Available
    /\ payload' = unpack(Take(rx, Asked))
    /\ rx' = Drop(rx, Asked)
    /\ ops' = Append(ops, Op("read", "payload", Asked, TRUE))
    /\ want' = ToSize(length(header))
    /\ pc' = "readLeftover"
    /\ UNCHANGED <<sent, failed, msgs, tx, call, header, idx, tested, invoked,
                   leftover, result, nrecv>>
    /\ got' = got \o Take(rx, Asked)

\* T readPayload<T>(const Header &, Buffer &): unpack<T>(socket.read(sizeof(T)))
readPayloadPrefix ==
    /\ pc = "readPrefix"
    /\ Available
    /\ payload' = unpack(Take(rx, Asked))
    /\ rx' = Drop(rx, Asked)
    /\ ops' = Append(ops, Op("read", "payload", Asked, TRUE))
    /\ want' = SizeSub(length(header), CurT.size)
    /\ pc' = "readLeftover"
    /\ UNCHANGED <<sent, failed, msgs, tx, call, header, idx, tested, invoked, leftover,
                   result, nrecv>>
    /\ got' = got \o Take(rx, Asked)

\* T readPayload<T>(const Header &, Buffer &): leftover = socket.read(...)
readPayloadLeftover ==
    /\ pc = "readLeftover"
    /\ Available
    /\ leftover' = Take(rx, Asked)
    /\ rx' = Drop(rx, Asked)
    /\ ops' = Append(ops, Op("read", "leftover", Asked, TRUE))
    /\ IF call.kind = "readBuffer"
       THEN Done("ok")
       ELSE pc' = "invoke" /\ UNCHANGED result
    /\ UNCHANGED <<sent, failed, msgs, tx, call, header, want, idx, tested, invoked,
                   payload, nrecv>>
    /\ got' = got \o Take(rx, Asked)

\* dispatchEmpty that throws when no function was selected
dispatchEmpty_throws ==
    /\ pc = "dispatch"
    /\ idx > Len(call.functions)
    /\ Done("NoMatch")
    /\ UNCHANGED <<sent, got, failed, msgs, rx, tx, call, header, want, idx,
                   tested, invoked, payload, leftover, ops, nrecv>>

\* void dispatch(const Header &)
dispatchEmpty ==
    /\ pc = "dispatch"
    /\ idx > Len(call.functions)
    /\ Done("ok")
    /\ UNCHANGED <<sent, got, failed, msgs, rx, tx, call, header, want, idx, tested, invoked,
                   payload, leftover, ops, nrecv>>

\* dispatchFixedTest without the comparison of the length
dispatchFixedTest_noLength(h, T) ==
    h.cls = T.cls /\ h.cmd = T.cmd

\* the condition of dispatch, first argument not partial
dispatchFixedTest(h, T) ==
    h.cls = T.cls /\ h.cmd = T.cmd /\ length(h) = T.size

\* dispatchPartialTest without the comparison of the command
dispatchPartialTest_noCommand(h, T) ==
    h.cls = T.cls

\* the condition of dispatch, first argument partial
dispatchPartialTest(h, T) ==
    h.cls = T.cls /\ h.cmd = T.cmd

\* dispatchFixed that calls the function without reading the payload
dispatchFixed_skipRead ==
    /\ pc = "dispatch"
    /\ idx <= Len(call.functions)
    /\ ~call.functions[idx].partial
    /\ tested' = Append(tested, idx)
    /\ IF dispatchFixedTest(header, call.functions[idx])
       THEN pc' = "invoke" /\ UNCHANGED <<idx, want>>
       ELSE idx' = idx + 1 /\ UNCHANGED <<pc, want>>
    /\ UNCHANGED <<sent, got, failed, msgs, rx, tx, call, header, invoked,
                   payload, leftover, ops, result, nrecv>>

\* dispatch(header, function, functions...), first argument not partial
dispatchFixed ==
    /\ pc = "dispatch"
    /\ idx <= Len(call.functions)
    /\ ~call.functions[idx].partial
    /\ tested' = Append(tested, idx)
    /\ IF dispatchFixedTest(header, call.functions[idx])
       THEN pc' = "readPayload" /\ want' = ToSize(length(header)) /\ UNCHANGED idx
       ELSE idx' = idx + 1 /\ UNCHANGED <<pc, want>>
    /\ UNCHANGED <<sent, got, failed, msgs, rx, tx, call, header, invoked, payload, leftover,
                   ops, result, nrecv>>

\* dispatch(header, function, functions...), first argument partial
dispatchPartial ==
    /\ pc = "dispatch"
    /\ idx <= Len(call.functions)
    /\ call.functions[idx].partial
    /\ tested' = Append(tested, idx)
    /\ IF dispatchPartialTest(header, call.functions[idx])
       THEN pc' = "readPrefix" /\ want' = ToSize(call.functions[idx].size)
            /\ UNCHANGED idx
       ELSE idx' = idx + 1 /\ UNCHANGED <<pc, want>>
    /\ UNCHANGED <<sent, got, failed, msgs, rx, tx, call, header, invoked, payload, leftover,
                   ops, result, nrecv>>

\* invokeFunction without its `return`: dispatch goes on with functions...
invokeFunction_noReturn ==
    /\ pc = "invoke"
    /\ invoked' = Append(invoked, [fn |-> idx, payload |-> payload,
                                   leftover |-> leftover])
    /\ pc' = "dispatch"
    /\ idx' = idx + 1
    /\ UNCHANGED <<sent, got, failed, msgs, rx, tx, call, header, want, tested,
                   payload, leftover, ops, result, nrecv>>

\* function(readPayload<T>(header)); return;
\* function(std::move(payload), std::move(leftover)); return;
invokeFunction ==
    /\ pc = "invoke"
    /\ invoked' = Append(invoked, [fn |-> idx, payload |-> payload,
                                   leftover |-> leftover])
    /\ Done("ok")
    /\ UNCHANGED <<sent, got, failed, msgs, rx, tx, call, header, want, idx, tested, payload,
                   leftover, ops, nrecv>>

ReadPcs == {"readHeader", "readPayload", "readPrefix", "readLeftover"}
WritePcs == {"writeHeader", "writePayload", "writeLeftover"}

\* TransportError caught inside the call, which tries the operation again
TransportError_retry ==
    /\ pc \in ReadPcs \cup WritePcs
    /\ ops' = Append(ops, Op(IF pc \in ReadPcs THEN "read" ELSE "write",
                             "failed", 0, FALSE))
    /\ Len(ops) < 4
    /\ failed' = (failed \/ pc \in ReadPcs)
    /\ UNCHANGED <<sent, got, msgs, rx, tx, pc, call, header, want, idx, tested,
                   invoked, payload, leftover, result, nrecv>>

\* socket.read / socket.write fails: the exception leaves the call, which
\* has no handler for it
TransportError ==
    /\ pc \in ReadPcs \cup WritePcs
    /\ ops' = Append(ops, Op(IF pc \in ReadPcs THEN "read" ELSE "write",
                             "failed", 0, FALSE))
    /\ Done("TransportError")
    /\ UNCHANGED <<sent, got, msgs, rx, tx, call, header, want, idx, tested, invoked,
                   payload, leftover, nrecv>>
    /\ failed' = (failed \/ pc \in ReadPcs)

\* the call returns or its exception reaches the caller
Return ==
    /\ pc = "done"
    /\ pc' = "idle"
    /\ call' = NoCall
    /\ header' = NoHeader
    /\ tx' = <<>>
    /\ want' = ToSize(0)
    /\ idx' = 0
    /\ tested' = <<>>
    /\ invoked' = <<>>
    /\ payload' = 0
    /\ leftover' = <<>>
    /\ ops' = <<>>
    /\ result' = "none"
    /\ UNCHANGED <<sent, failed, msgs, rx, nrecv>>
    /\ got' = <<>>

FixedTypes == { T \in Types : ~T.partial }
PartialTypes == { T \in Types : T.partial }
Buffers == { [j \in 1..n |-> 128 + j] : n \in 0..MaxLeftover }

Next ==
    \/ \E T \in Types : \E v \in Values(T) : CallWrite(T, v)
    \/ \E T \in PartialTypes : \E v \in Values(T) : \E b \in Buffers :
          CallWriteBuffer(T, v, b)
    \/ \E T \in FixedTypes : CallRead(T)
    \/ \E T \in PartialTypes : CallReadBuffer(T)
    \/ \E fs \in SeqsUpTo(Types, MaxFunctions) : CallReadFunctions(fs)
    \/ writeHeader
    \/ writePayload
    \/ writeLeftover
    \/ readHeader
    \/ checkHeaderStep
    \/ readPayload
    \/ readPayloadPrefix
    \/ readPayloadLeftover
    \/ dispatchEmpty
    \/ dispatchFixed
    \/ dispatchPartial
    \/ invokeFunction
    \/ TransportError
    \/ Return

Spec == Init /\ [][Next]_vars

\* ============================================================== claims
IsRead == call.kind \in {"read", "readBuffer", "readFunctions"}
IsWrite == call.kind \in {"write", "writeBuffer"}

\* the current call has read its header
HeaderRead == Len(ops) >= 1 /\ ops[1].ok /\ ops[1].what = "header"

Mismatches == {"ClassMismatch", "CommandMismatch", "LengthMismatch"}

\* the test dispatch evaluates for a function whose first argument is T
MatchTest(h, T) ==
    IF T.partial THEN dispatchPartialTest(h, T) ELSE dispatchFixedTest(h, T)

\* C1: in read(functions...) at most one function is invoked; it is the
\* first one in the list whose test passes, the functions are tested in list
\* order, and nothing is tested after a test has passed.
C1_FirstMatchWins ==
    call.kind = "readFunctions" =>
        /\ Len(invoked) <= 1
        /\ \A i \in 1..Len(tested) : tested[i] = i
        /\ \A i \in 1..(Len(tested) - 1) :
              ~MatchTest(header, call.functions[tested[i]])
        /\ \A i \in 1..Len(invoked) :
              /\ invoked[i].fn = tested[Len(tested)]
              /\ MatchTest(header, call.functions[invoked[i].fn])
              /\ \A j \in 1..(invoked[i].fn - 1) :
                    ~MatchTest(header, call.functions[j])

\* a fixed and a partial function of the same class and command, the header
\* fits both, the first one was invoked and the second one never tested
C1_Witness ==
    /\ call.kind = "readFunctions"
    /\ pc = "done"
    /\ Len(call.functions) = 2
    /\ ~call.functions[1].partial
    /\ call.functions[2].partial
    /\ MatchTest(header, call.functions[2])
    /\ Len(invoked) = 1
    /\ invoked[1].fn = 1
    /\ tested = <<1>>

\* C2: when read(functions...) has read a header that passes the test of
\* none of its functions, it invokes nothing, raises no error, performs no
\* transport operation after reading the header, and returns.
C2_UnmatchedIsNoError ==
    ( /\ call.kind = "readFunctions"
      /\ HeaderRead
      /\ \A i \in 1..Len(call.functions) :
            ~MatchTest(header, call.functions[i]) )
    => /\ invoked = <<>>
       /\ Len(ops) = 1
       /\ result \in {"none", "ok"}
       /\ pc \in {"dispatch", "done"}
       /\ pc = "done" => result = "ok"

\* a fixed function of the header's class and command, but of another size
C2_Witness ==
    /\ call.kind = "readFunctions"
    /\ pc = "done"
    /\ result = "ok"
    /\ invoked = <<>>
    /\ HeaderRead
    /\ Len(call.functions) = 1
    /\ ~call.functions[1].partial
    /\ call.functions[1].cls = header.cls
    /\ call.functions[1].cmd = header.cmd
    /\ call.functions[1].size # length(header)

\* C3: a partial function is selected by dispatch only if the header has its
\* class and command and a length of at least sizeof(T).
C3_PartialTestHasMinimumLength ==
    ( /\ call.kind = "readFunctions"
      /\ pc \in {"readPrefix", "readLeftover", "invoke"} \/ invoked # <<>>
      /\ idx \in 1..Len(call.functions)
      /\ call.functions[idx].partial )
    => /\ header.cls = call.functions[idx].cls
       /\ header.cmd = call.functions[idx].cmd
       /\ length(header) >= call.functions[idx].size

\* C4: the number of leftover bytes asked of the transport in a partial
\* decode is header.length() - sizeof(T), and is not negative.
C4_LeftoverRequest ==
    pc = "readLeftover" =>
        /\ SizeFits(want)
        /\ SizeNat(want) = length(header) - CurT.size
        /\ length(header) - CurT.size >= 0

\* C5: a function with a fixed first argument T is invoked only for a header
\* of T's class, command and size; read<T>() ends in a mismatch exactly when
\* one of the three differs and otherwise goes on to return the value; in
\* both cases the payload is decoded from exactly sizeof(T) bytes read after
\* the header.
C5_FixedValidity ==
    /\ \A i \in 1..Len(invoked) :
          LET T == call.functions[invoked[i].fn]
          IN ~T.partial =>
                /\ header.cls = T.cls
                /\ header.cmd = T.cmd
                /\ length(header) = T.size
                /\ Len(got) = HeaderSize + T.size
                /\ invoked[i].payload = unpack(Drop(got, HeaderSize))
    /\ (call.kind = "read" /\ HeaderRead /\ pc # "checkHeader") =>
          LET valid == /\ header.cls = call.T.cls
                       /\ header.cmd = call.T.cmd
                       /\ length(header) = call.T.size
          IN /\ result \in Mismatches <=> ~valid
             /\ result = "ok" => /\ valid
                                 /\ Len(got) = HeaderSize + call.T.size
                                 /\ payload = unpack(Drop(got, HeaderSize))
             /\ valid => \/ pc = "readPayload" /\ want = ToSize(call.T.size)
                         \/ pc = "done" /\ result \in {"ok", "TransportError"}

\* read<T>() has returned the value of a fixed T
C5_Witness ==
    /\ call.kind = "read"
    /\ pc = "done"
    /\ result = "ok"
    /\ Len(got) = HeaderSize + call.T.size
    /\ payload # 0

\* C6: read<T>() and read<T>(Buffer &) fail with a mismatch exactly when the
\* class differs, the command differs, or T is fixed and the length differs;
\* the kind reported names a condition that holds (the only one, when one
\* alone holds), a length mismatch is never reported for a partial T, and
\* the call goes on to the payload when none holds.
C6_ValidatorClassifies ==
    (call.kind \in {"read", "readBuffer"} /\ HeaderRead /\ pc # "checkHeader")
    => LET cls == header.cls # call.T.cls
           cmd == header.cmd # call.T.cmd
           len == ~call.T.partial /\ length(header) # call.T.size
       IN /\ result \in Mismatches <=> (cls \/ cmd \/ len)
          /\ result = "ClassMismatch" => cls
          /\ result = "CommandMismatch" => cmd
          /\ result = "LengthMismatch" => len
          /\ (cls /\ ~cmd /\ ~len) => result = "ClassMismatch"
          /\ (cmd /\ ~cls /\ ~len) => result = "CommandMismatch"
          /\ (len /\ ~cls /\ ~cmd) => result = "LengthMismatch"
          /\ call.T.partial => result # "LengthMismatch"
          /\ result \in Mismatches => pc = "done" /\ Len(ops) = 1

\* a fixed T, a header of its class and command and of another length
C6_Witness ==
    /\ call.kind = "read"
    /\ pc = "done"
    /\ result = "LengthMismatch"
    /\ header.cls = call.T.cls
    /\ header.cmd = call.T.cmd

\* C7: the bytes of a write call are, in this order, a header of T's class
\* and command whose length is sizeof(T) plus the size of the leftover, the
\* sizeof(T) bytes of the payload, and the leftover; when the call returns
\* all of them are written and the bytes after the header are as many as
\* the header's length.
C7_WireMessage ==
    IsWrite =>
        LET n == call.T.size + Len(call.leftover)
            expected == <<n \div 256, n % 256, call.T.cls, call.T.cmd>>
                        \o pack(call.payload, call.T.size)
                        \o call.leftover
        IN /\ Len(tx) <= Len(expected)
           /\ tx = Take(expected, Len(tx))
           /\ (pc = "done" /\ result = "ok") =>
                 /\ tx = expected
                 /\ Len(tx) - HeaderSize = length(unpackHeader(tx))
                 /\ [i \in 1..Len(ops) |-> ops[i].n]
                       = IF call.kind = "writeBuffer"
                         THEN <<HeaderSize, call.T.size, Len(call.leftover)>>
                         ELSE <<HeaderSize, call.T.size>>

\* write(payload, leftover) has returned, the leftover was not empty
C7_Witness ==
    /\ call.kind = "writeBuffer"
    /\ pc = "done"
    /\ result = "ok"
    /\ call.leftover # <<>>
    /\ Len(tx) = HeaderSize + call.T.size + Len(call.leftover)

\* C8: while no read of the transport has failed, the header taken by the
\* k-th read call is the header of the k-th message delivered.
C8_HandlingOrderIsDeliveryOrder ==
    (IsRead /\ HeaderRead /\ ~failed /\ nrecv <= Len(msgs))
    => header = msgs[nrecv]

\* number of headers read and of bytes taken by the current call
HeaderReads == Cardinality({ i \in 1..Len(ops) :
                                ops[i].ok /\ ops[i].what = "header" })

\* C9: a read call reads one header and no byte beyond the message of that
\* header, that is at most 4 + header.length() bytes.
C9_OneMessagePerCall ==
    IsRead =>
        /\ HeaderReads <= 1
        /\ (pc = "done" /\ result = "ok") => HeaderReads = 1
        /\ HeaderRead => Len(got) <= HeaderSize + length(header)

\* C10: a failed transport operation is the last transport operation of its
\* call; the call has ended with the transport error and has invoked no
\* function.
C10_TransportErrorIsFatal ==
    \A i \in 1..Len(ops) :
        ~ops[i].ok =>
            /\ i = Len(ops)
            /\ pc = "done"
            /\ result = "TransportError"
            /\ invoked = <<>>

\* the read of the payload of a selected function has failed
C10_Witness ==
    /\ call.kind = "readFunctions"
    /\ pc = "done"
    /\ result = "TransportError"
    /\ Len(ops) = 2
    /\ ops[1].ok
    /\ tested # <<>>
    /\ invoked = <<>>

\* the header of the current call is not one of T: another class, another
\* command, or for a fixed T another length
Invalid(T, h) ==
    \/ h.cls # T.cls
    \/ h.cmd # T.cmd
    \/ ~T.partial /\ length(h) # T.size

\* C11: when the header read by read<T>() or read<T>(Buffer &) is not one of
\* T, the call has ended in a mismatch after the single read of the 4 header
\* bytes: no payload byte read, no second header, no value decoded.
C11_SingleShotOnMismatch ==
    ( /\ call.kind \in {"read", "readBuffer"}
      /\ HeaderRead
      /\ pc # "checkHeader"
      /\ Invalid(call.T, header) )
    => /\ pc = "done"
       /\ result \in Mismatches
       /\ Len(ops) = 1
       /\ ops[1].n = HeaderSize
       /\ Len(got) = HeaderSize
       /\ rx = Drop(Wire(msgs), Len(Wire(msgs)) - Len(rx))
       /\ payload = 0
       /\ leftover = <<>>

\* a mismatch on a message that has payload bytes: they are still on the
\* transport
C11_Witness ==
    /\ call.kind = "read"
    /\ pc = "done"
    /\ result = "CommandMismatch" \/ result = "ClassMismatch"
    /\ length(header) > 0
    /\ Len(got) = HeaderSize
    /\ Len(rx) >= length(header)

\* value v and Buffer b are the split of the bytes the call has read after
\* the header h, for the partial type T
IsSplit(T, h, v, b) ==
    /\ Len(got) = HeaderSize + length(h)
    /\ v = unpack(SubSeq(got, HeaderSize + 1, HeaderSize + T.size))
    /\ b = SubSeq(got, HeaderSize + T.size + 1, HeaderSize + length(h))
    /\ Len(b) = length(h) - T.size
    /\ pack(v, T.size) \o b = Drop(got, HeaderSize)
    /\ (nrecv = 1 /\ Len(msgs) >= 1) => got = Message(1, msgs[1])

\* C12: for a partial T and a header of length at least sizeof(T), the value
\* returned by read<T>(Buffer &), or passed to a function of read(functions...),
\* is decoded from the first sizeof(T) payload bytes and the Buffer holds the
\* header.length() - sizeof(T) bytes that follow, in stream order.
C12_PartialSplit ==
    /\ ( /\ call.kind = "readBuffer"
         /\ pc = "done"
         /\ result = "ok"
         /\ length(header) >= call.T.size )
       => IsSplit(call.T, header, payload, leftover)
    /\ \A i \in 1..Len(invoked) :
          LET T == call.functions[invoked[i].fn]
          IN (T.partial /\ length(header) >= T.size)
             => IsSplit(T, header, invoked[i].payload, invoked[i].leftover)

\* a partial function was invoked with a Buffer that is not empty
C12_Witness ==
    /\ call.kind = "readFunctions"
    /\ pc = "done"
    /\ Len(invoked) = 1
    /\ call.functions[invoked[1].fn].partial
    /\ invoked[1].leftover # <<>>
    /\ invoked[1].payload # 0

\* C13: in read(f) with the single function f of first argument T, fixed or
\* partial, f is selected exactly when checkHeader<T> accepts the header
\* read, f is invoked only then, and when the call has returned f has been
\* invoked exactly when checkHeader<T> accepts the header.
C13_DispatchMatchesValidator ==
    ( /\ call.kind = "readFunctions"
      /\ Len(call.functions) = 1
      /\ HeaderRead )
    => LET accepts == checkHeader(call.functions[1], header) = "ok"
       IN /\ tested # <<>> => (idx = 1 <=> accepts)
          /\ invoked # <<>> => accepts
          /\ (pc = "done" /\ result = "ok") => (invoked # <<>> <=> accepts)

\* the single function is partial and was invoked for a header longer than
\* sizeof(T)
C13_Witness ==
    /\ call.kind = "readFunctions"
    /\ Len(call.functions) = 1
    /\ call.functions[1].partial
    /\ pc = "done"
    /\ invoked # <<>>
    /\ length(header) > call.functions[1].size
    /\ checkHeader(call.functions[1], header) = "ok"

\* ------------------------------------------------------------- loopback
\* The transport gives back what was written to it: a write call that has
\* returned leaves its bytes to be read.
Loopback ==
    /\ pc = "done"
    /\ IsWrite
    /\ result = "ok"
    /\ rx' = rx \o tx
    /\ sent' = [call |-> call, bytes |-> tx]
    /\ pc' = "idle"
    /\ call' = NoCall
    /\ tx' = <<>>
    /\ ops' = <<>>
    /\ result' = "none"
    /\ UNCHANGED <<msgs, header, want, idx, tested, invoked, payload,
                   leftover, got, failed, nrecv>>

InitLoop == Init /\ msgs = <<>>

NextLoop ==
    \/ /\ rx = <<>>
       /\ nrecv < MaxCalls
       /\ \/ \E T \in Types : \E v \in Values(T) : CallWrite(T, v)
          \/ \E T \in PartialTypes : \E v \in Values(T) : \E b \in Buffers :
                CallWriteBuffer(T, v, b)
    \/ writeHeader
    \/ writePayload
    \/ writeLeftover
    \/ Loopback
    \/ \E T \in Types :
          /\ T.partial => /\ T = sent.call.T
                          /\ sent.call.leftover = <<>>
                          /\ rx = sent.bytes
          /\ CallRead(T)
    \/ \E T \in PartialTypes : CallReadBuffer(T)
    \/ readHeader
    \/ checkHeaderStep
    \/ readPayload
    \/ readPayloadPrefix
    \/ readPayloadLeftover
    \/ IsRead /\ Return

SpecLoop == InitLoop /\ [][NextLoop]_vars

\* the current read call is for the type last written and began on exactly
\* the bytes of that write
ReadsBack ==
    /\ call.kind \in {"read", "readBuffer"}
    /\ sent.call.kind \in {"write", "writeBuffer"}
    /\ call.T = sent.call.T
    /\ got \o rx = sent.bytes

\* C14: read<T>() on the bytes of write<T>(v) returns v, and read<T>(Buffer &)
\* on the bytes of write<T>(v, b) returns v and b; the call raises no
\* mismatch and, when it returns, has taken exactly the bytes written.
C14_Loopback ==
    ReadsBack =>
        /\ result \notin Mismatches
        /\ (HeaderRead /\ pc # "checkHeader") => pc # "done" \/ result = "ok"
        /\ pc = "done" =>
              /\ result = "ok"
              /\ payload = sent.call.payload
              /\ call.kind = "readBuffer" => leftover = sent.call.leftover
              /\ call.kind = "read" => sent.call.leftover = <<>>
              /\ got = sent.bytes
              /\ rx = <<>>

\* read<T>(Buffer &) has returned the value and the Buffer, not empty, of the
\* write before it
C14_Witness ==
    /\ ReadsBack
    /\ call.kind = "readBuffer"
    /\ pc = "done"
    /\ result = "ok"
    /\ sent.call.leftover # <<>>
    /\ leftover = sent.call.leftover
    /\ payload = sent.call.payload
    /\ rx = <<>>

\* ------------------------------------------------------------- progress
\* The transport does not fail.  A call runs on once begun: a step that is
\* not blocked in socket.read is taken; nothing makes the caller call.
Step ==
    \/ writeHeader
    \/ writePayload
    \/ writeLeftover
    \/ readHeader
    \/ checkHeaderStep
    \/ readPayload
    \/ readPayloadPrefix
    \/ readPayloadLeftover
    \/ dispatchEmpty
    \/ dispatchFixed
    \/ dispatchPartial
    \/ invokeFunction

NextLive ==
    \/ \E T \in Types : \E v \in Values(T) : CallWrite(T, v)
    \/ \E T \in PartialTypes : \E v \in Values(T) : \E b \in Buffers :
          CallWriteBuffer(T, v, b)
    \/ \E T \in FixedTypes : CallRead(T)
    \/ \E T \in PartialTypes : CallReadBuffer(T)
    \/ \E fs \in SeqsUpTo(Types, MaxFunctions) : CallReadFunctions(fs)
    \/ Step
    \/ Return

SpecLive == Init /\ [][NextLive]_vars /\ WF_vars(Step)

\* C15: when the transport holds a complete message and does not fail, the
\* first read call, whatever its type or functions, comes to its end: it
\* returns or raises a mismatch.
C15_ReadTerminates ==
    (nrecv = 1 /\ Len(msgs) >= 1 /\ pc = "readHeader") ~> (pc = "done")

\* C16: a read call that has returned normally has taken 4 +
\* header.length() bytes from the transport, the whole message of its header.
C16_MessageBoundary ==
    (IsRead /\ pc = "done" /\ result = "ok")
    => Len(got) = HeaderSize + length(header)

\* C17: checkHeader compares the class, then the command, then the length:
\* another class gives ClassMismatch whatever the command and the length;
\* CommandMismatch is given exactly for the class of T and another command;
\* LengthMismatch only for the class and the command of T.
C17_CheckOrder ==
    (call.kind \in {"read", "readBuffer"} /\ HeaderRead /\ pc # "checkHeader")
    => /\ header.cls # call.T.cls => result = "ClassMismatch"
       /\ result = "ClassMismatch" => header.cls # call.T.cls
       /\ result = "CommandMismatch"
             <=> (header.cls = call.T.cls /\ header.cmd # call.T.cmd)
       /\ result = "LengthMismatch"
             => (header.cls = call.T.cls /\ header.cmd = call.T.cmd)

\* class, command and length all differ from those of T: ClassMismatch
C17_Witness ==
    /\ call.kind = "read"
    /\ pc = "done"
    /\ header.cls # call.T.cls
    /\ header.cmd # call.T.cmd
    /\ length(header) # call.T.size
    /\ result = "ClassMismatch"

\* C18: a write call reads nothing from the transport and a read call
\* writes nothing to it; in read(functions...) a read after the header comes
\* only after a test that passed, and a function is invoked only after the
\* reads of its payload have completed.
C18_Direction ==
    /\ IsWrite => /\ \A i \in 1..Len(ops) : ops[i].op = "write"
                  /\ got = <<>>
                  /\ Len(rx) = Len(Wire(msgs)) \/ nrecv > 0
    /\ IsRead => /\ \A i \in 1..Len(ops) : ops[i].op = "read"
                 /\ tx = <<>>
    /\ call.kind = "readFunctions" =>
          /\ (Len(ops) >= 2 \/ pc \in {"readPayload", "readPrefix",
                                        "readLeftover"})
                => /\ tested # <<>>
                   /\ MatchTest(header, call.functions[tested[Len(tested)]])
          /\ \A i \in 1..Len(invoked) :
                LET T == call.functions[invoked[i].fn]
                IN /\ Len(ops) = IF T.partial THEN 3 ELSE 2
                   /\ \A j \in 1..Len(ops) : ops[j].ok
                   /\ Len(got) = HeaderSize + ops[2].n
                                 + (IF T.partial THEN ops[3].n ELSE 0)

\* a function was invoked after the read of its payload
C18_Witness ==
    /\ call.kind = "readFunctions"
    /\ pc = "done"
    /\ Len(invoked) = 1
    /\ Len(ops) = 2
    /\ ops[2].ok
    /\ ops[2].n > 0
    /\ tx = <<>>

====
